---- MODULE Spec2Model ----
(***************************************************************************)
(* A model of the RocksDB handle DBPy of src/db.rs: the optional engine    *)
(* instance (self.db), the engine's key space as the handle's calls to the *)
(* engine change it, the backup directory and the restore directory, and   *)
(* the result of the call that ran last.                                   *)
(*                                                                         *)
(* Every #[pymethods] method runs with the interpreter lock held and never *)
(* releases it (there is no allow_threads in db.rs), so one call is one    *)
(* step: other threads' calls interleave between calls, not inside one.    *)
(*                                                                         *)
(* Option<T> is modelled as a sequence of length at most one: None is <<>> *)
(* and Some(x) is <<x>>.  Keys are the integers 0..MaxKey in place of byte *)
(* strings, their order standing for the engine's byte-wise order, and 0   *)
(* standing for the empty byte string b"".                                 *)
(***************************************************************************)
EXTENDS Integers, Sequences, FiniteSets, TLC

\* Bounds of the model.
MaxKey == 1
NumValues == 2
MaxBatchLen == 2
MaxKeysLen == 2
MaxDir == 2
MaxBackups == 2

\* b"" (db.rs:189), the least key.
EmptyKey == 0

Keys == EmptyKey..MaxKey
Values == 1..NumValues
None == <<>>
Some(x) == <<x>>
Option(S) == {None} \cup {Some(x) : x \in S}

\* The mode strings a caller may pass: the two the match names and two others.
Modes == {"end", "from", "start", "other"}
Directions == (0 - MaxDir)..MaxDir

\* The sequences over S of length at most n.
RECURSIVE SeqsUpTo(_, _)
SeqsUpTo(S, n) ==
    IF n = 0 THEN {<<>>}
    ELSE LET shorter == SeqsUpTo(S, n - 1)
         IN  shorter \cup {Append(s, x) : s \in {t \in shorter : Len(t) = n - 1}, x \in S}

VARIABLES
    db,        \* self.db: "Some" while the engine instance is held, "None" after close
    store,     \* the engine's key space: key -> Option(value)
    dirty,     \* the engine holds writes not yet flushed to its table files
    batch,     \* the WriteBatch the client is filling
    backups,   \* the backups accumulated in the backup directory, oldest first
    restored,  \* the contents of the restore directory: Option(key space)
    lastBackup,\* history: the key space at the latest successful create_backup
    res        \* the call that ran last: its arguments and its result

vars == <<db, store, dirty, batch, backups, restored, lastBackup, res>>

EmptyStore == [k \in Keys |-> None]

\* IteratorMode (rocksdb): Start, End, From(key, direction).
Start == [tag |-> "Start", key |-> None, dr |-> "Forward"]
End == [tag |-> "End", key |-> None, dr |-> "Forward"]
From(k, d) == [tag |-> "From", key |-> Some(k), dr |-> d]

\* The record of a call: what was passed and what came back.  kind is "ok", or
\* "notopen" (the else branch of `if let Some(db) = &self.db`: the error without an
\* engine cause), or "engine" (the engine's error, wrapped with its cause).
Call(op, kind) ==
    [op |-> op, open |-> (db = "Some"), kind |-> kind,
     key |-> None, value |-> None, keys |-> <<>>, skip |-> None,
     mode |-> None, direction |-> None, im |-> Start,
     wr |-> <<>>, ret |-> <<>>, len |-> 0]

Result(open, ok) == IF ~open THEN "notopen" ELSE IF ok THEN "ok" ELSE "engine"

Init ==
    /\ db = "Some"
    /\ store = EmptyStore
    /\ dirty = FALSE
    /\ batch = <<>>
    /\ backups = <<>>
    /\ restored = None
    /\ lastBackup = None
    /\ res = Call("open", "ok")

----------------------------------------------------------------------------
\* The engine (rocksdb::DB), as the handle calls it.

DbGet(s, k) == s[k]
DbPut(s, k, v) == [s EXCEPT ![k] = Some(v)]
DbDelete(s, k) == [s EXCEPT ![k] = None]

ApplyEntry(s, e) ==
    IF e.kind = "put" THEN DbPut(s, e.key, e.value[1]) ELSE DbDelete(s, e.key)

\* DB::write: the entries of the batch, in insertion order.
RECURSIVE DbWrite(_, _)
DbWrite(s, wr) ==
    IF wr = <<>> THEN s ELSE DbWrite(ApplyEntry(s, Head(wr)), Tail(wr))

----------------------------------------------------------------------------
\* Point operations.

\* get with `Ok(None)` turned into an error: an absent key fails.
get_absent_fails(key) ==
    \E ok \in BOOLEAN :
        LET found == db = "Some" /\ ok /\ DbGet(store, key) # None
        IN  /\ res' = [Call("get", IF db = "Some" /\ ok /\ ~found THEN "notopen"
                                   ELSE Result(db = "Some", ok)) EXCEPT
                         !.key = Some(key),
                         !.ret = IF found THEN DbGet(store, key) ELSE None]
            /\ UNCHANGED <<db, store, dirty, batch, backups, restored, lastBackup>>

get(key) ==
    \E ok \in BOOLEAN :
        /\ res' = [Call("get", Result(db = "Some", ok)) EXCEPT
                     !.key = Some(key),
                     !.ret = IF db = "Some" /\ ok THEN DbGet(store, key) ELSE None]
        /\ UNCHANGED <<db, store, dirty, batch, backups, restored, lastBackup>>

\* set with the engine's error dropped: Ok(()) whatever db.put answered.
set_ignores_error(key, value) ==
    \E ok \in BOOLEAN :
        /\ res' = [Call("set", Result(db = "Some", TRUE)) EXCEPT
                     !.key = Some(key), !.value = Some(value)]
        /\ store' = IF db = "Some" /\ ok THEN DbPut(store, key, value) ELSE store
        /\ dirty' = (dirty \/ (db = "Some" /\ ok))
        /\ UNCHANGED <<db, batch, backups, restored, lastBackup>>

set(key, value) ==
    \E ok \in BOOLEAN :
        /\ res' = [Call("set", Result(db = "Some", ok)) EXCEPT
                     !.key = Some(key), !.value = Some(value)]
        /\ store' = IF db = "Some" /\ ok THEN DbPut(store, key, value) ELSE store
        /\ dirty' = (dirty \/ (db = "Some" /\ ok))
        /\ UNCHANGED <<db, batch, backups, restored, lastBackup>>

delete(key) ==
    \E ok \in BOOLEAN :
        /\ res' = [Call("delete", Result(db = "Some", ok)) EXCEPT !.key = Some(key)]
        /\ store' = IF db = "Some" /\ ok THEN DbDelete(store, key) ELSE store
        /\ dirty' = (dirty \/ (db = "Some" /\ ok))
        /\ UNCHANGED <<db, batch, backups, restored, lastBackup>>

\* close that refuses a handle already closed.
close_once ==
    /\ db' = "None"
    /\ res' = Call("close", Result(db = "Some", TRUE))
    /\ UNCHANGED <<store, dirty, batch, backups, restored, lastBackup>>

close ==
    /\ db' = "None"
    /\ res' = Call("close", "ok")
    /\ UNCHANGED <<store, dirty, batch, backups, restored, lastBackup>>

----------------------------------------------------------------------------
\* multi_get.

\* The test of db.rs:137 the other way round: true when skip_missings is true.
skip_inverted(skip_missings) == skip_missings # None /\ skip_missings[1] = TRUE

\* db.rs:137.  The local is named `skip` but is true when missing keys are to be
\* KEPT as None: skip_missings absent or false.
skip(skip_missings) == skip_missings = None \/ skip_missings[1] = FALSE

\* db.rs:140-161, the loop over the engine's answers (one Option per key, in key
\* order): a value is appended, a missing one is appended as None or passed over.
RECURSIVE Collect(_, _)
Collect(values, keep) ==
    IF values = <<>> THEN <<>>
    ELSE LET v == Head(values)
             rest == Collect(Tail(values), keep)
         IN  IF v # None THEN <<v>> \o rest
             ELSE IF keep THEN <<None>> \o rest
             ELSE rest

\* DB::multi_get: the engine's answer for each key, in the order of the keys.
DbMultiGet(s, ks) == [i \in 1..Len(ks) |-> DbGet(s, ks[i])]

\* keys is a list of byte strings (db.rs:133 unwraps the conversion of each
\* element).  errAt is the position of the first key whose read the engine fails
\* (0: none).  A closed handle skips the loop and answers Ok with the empty list.
multi_get(keys, skip_missings) ==
    \E errAt \in 0..Len(keys) :
        LET failed == db = "Some" /\ errAt > 0
        IN  /\ res' = [Call("multi_get", IF failed THEN "engine" ELSE "ok") EXCEPT
                         !.keys = keys, !.skip = skip_missings,
                         !.ret = IF db = "Some" /\ ~failed
                                 THEN Collect(DbMultiGet(store, keys), skip(skip_missings))
                                 ELSE <<>>]
            /\ UNCHANGED <<db, store, dirty, batch, backups, restored, lastBackup>>

----------------------------------------------------------------------------
\* iterator.

\* ik left at b"": the key argument is not read.
ik_unread(key) == EmptyKey

\* db.rs:189-194.
ik(key) == IF key # None THEN key[1] ELSE EmptyKey

\* dr without the `!key.is_none()` of db.rs:197: the direction is read whether or
\* not a key was passed.
dr_without_key(key, direction) ==
    IF direction # None
    THEN (IF direction[1] = -1 THEN "Reverse" ELSE "Forward")
    ELSE "Forward"

\* db.rs:190, 196-202.
dr(key, direction) ==
    IF key # None /\ direction # None
    THEN (IF direction[1] = -1 THEN "Reverse" ELSE "Forward")
    ELSE "Forward"

\* db.rs:186-209.
im(mode, key, direction) ==
    IF mode = None THEN Start
    ELSE CASE mode[1] = "end" -> End
           [] mode[1] = "from" -> From(ik(key), dr(key, direction))
           [] OTHER -> Start

\* The pairs from key k on, stepping up (Forward) or down (Reverse) to the end of
\* the key space.
RECURSIVE Scan(_, _, _)
Scan(s, k, d) ==
    IF k \notin Keys THEN <<>>
    ELSE (IF s[k] # None THEN <<(<<k, s[k][1]>>)>> ELSE <<>>)
             \o Scan(s, IF d = "Forward" THEN k + 1 ELSE k - 1, d)

\* What IteratorPy::new(db, im) yields when it is run to its end.
IterSeq(s, m) ==
    CASE m.tag = "Start" -> Scan(s, EmptyKey, "Forward")
      [] m.tag = "End" -> Scan(s, MaxKey, "Reverse")
      [] OTHER -> Scan(s, m.key[1], m.dr)

iterator(mode, key, direction) ==
    /\ res' = [Call("iterator", Result(db = "Some", TRUE)) EXCEPT
                 !.mode = mode, !.key = key, !.direction = direction,
                 !.im = im(mode, key, direction),
                 !.ret = IF db = "Some"
                         THEN IterSeq(store, im(mode, key, direction)) ELSE <<>>]
    /\ UNCHANGED <<db, store, dirty, batch, backups, restored, lastBackup>>

----------------------------------------------------------------------------
\* Maintenance.

cancel_all_background_work(wait) ==
    /\ res' = Call("cancel_all_background_work", Result(db = "Some", TRUE))
    /\ UNCHANGED <<db, store, dirty, batch, backups, restored, lastBackup>>

flush ==
    \E ok \in BOOLEAN :
        /\ res' = Call("flush", Result(db = "Some", ok))
        /\ dirty' = (dirty /\ ~(db = "Some" /\ ok))
        /\ UNCHANGED <<db, store, batch, backups, restored, lastBackup>>

\* The handle is a primary one (set and delete are allowed on it): the engine has
\* no primary to catch up with, and the key space stays as it is.
try_catch_up_with_primary ==
    \E ok \in BOOLEAN :
        /\ res' = Call("try_catch_up_with_primary", Result(db = "Some", ok))
        /\ UNCHANGED <<db, store, dirty, batch, backups, restored, lastBackup>>

----------------------------------------------------------------------------
\* WriteBatch and write.

batch_add(key, value) ==
    /\ Len(batch) < MaxBatchLen
    /\ batch' = Append(batch, [kind |-> "put", key |-> key, value |-> Some(value)])
    /\ res' = [Call("batch.add", "ok") EXCEPT !.key = Some(key), !.value = Some(value)]
    /\ UNCHANGED <<db, store, dirty, backups, restored, lastBackup>>

batch_delete(key) ==
    /\ Len(batch) < MaxBatchLen
    /\ batch' = Append(batch, [kind |-> "delete", key |-> key, value |-> None])
    /\ res' = [Call("batch.delete", "ok") EXCEPT !.key = Some(key)]
    /\ UNCHANGED <<db, store, dirty, backups, restored, lastBackup>>

\* write as a loop of single puts and deletes: when the engine fails at the last
\* entry the entries before it stay applied.
write_entry_by_entry ==
    \E ok \in BOOLEAN :
        LET wr == batch
            len == Len(wr)
        IN  /\ batch' = <<>>
            /\ res' = [Call("write", Result(db = "Some", ok)) EXCEPT
                         !.wr = wr, !.len = len]
            /\ store' = IF db # "Some" THEN store
                        ELSE IF ok THEN DbWrite(store, wr)
                        ELSE DbWrite(store, SubSeq(wr, 1, len - 1))
            /\ dirty' = (dirty \/ (db = "Some" /\ len > 0))
            /\ UNCHANGED <<db, backups, restored, lastBackup>>

\* db.rs:95-113.  batch.get() hands over the pending WriteBatch (wr) and leaves the
\* client's batch empty; len is read before the engine is called.
write ==
    \E ok \in BOOLEAN :
        LET wr == batch
            len == Len(wr)
        IN  /\ batch' = <<>>
            /\ res' = [Call("write", Result(db = "Some", ok)) EXCEPT
                         !.wr = wr, !.len = len]
            /\ store' = IF db = "Some" /\ ok THEN DbWrite(store, wr) ELSE store
            /\ dirty' = (dirty \/ (db = "Some" /\ ok /\ len > 0))
            /\ UNCHANGED <<db, backups, restored, lastBackup>>

----------------------------------------------------------------------------
\* Backup and restore.  One backup directory and one restore directory.

\* BackupEngine::create_new_backup_flush(db, flush_before_backup): a new backup of
\* the key space, unflushed writes included, after the backups already there.
CreateNewBackupFlush(bs, s) == Append(bs, s)

\* The oldest backup in place of the newest.
RestoreFromFirstBackup(bs) == bs[1]

\* BackupEngine::restore_from_latest_backup: the newest backup.
RestoreFromLatestBackup(bs) == bs[Len(bs)]

\* db.rs:295-332.  The engine may fail at any of its steps (options, env, opening
\* the backup engine, the backup); a failed backup adds nothing, and may or may
\* not have flushed.
create_backup ==
    /\ db = "Some" => Len(backups) < MaxBackups
    /\ \E ok \in BOOLEAN, flushed \in BOOLEAN :
        /\ ok => flushed
        /\ res' = Call("create_backup", Result(db = "Some", ok))
        /\ backups' = IF db = "Some" /\ ok
                      THEN CreateNewBackupFlush(backups, store) ELSE backups
        /\ lastBackup' = IF db = "Some" /\ ok
                         THEN Some([contents |-> store, unflushed |-> dirty])
                         ELSE lastBackup
        /\ dirty' = (dirty /\ ~(db = "Some" /\ flushed))
        /\ UNCHANGED <<db, store, batch, restored>>

\* db.rs:346-382, a static method: it does not read self.db.  The engine fails
\* when the backup directory holds no backup.
restore_latest_backup ==
    \E ok \in BOOLEAN :
        LET done == ok /\ backups # <<>>
        IN  /\ res' = [Call("restore_latest_backup", IF done THEN "ok" ELSE "engine")
                         EXCEPT !.open = TRUE]
            /\ restored' = IF done THEN Some(RestoreFromLatestBackup(backups))
                           ELSE restored
            /\ UNCHANGED <<db, store, dirty, batch, backups, lastBackup>>

----------------------------------------------------------------------------
\* Specifications.  Each runs the handlers above on inputs from small sets.

\* The one key the widest specifications write, as in the round trip of the
\* specification's section 8.
OneKey == {MaxKey}

\* The whole handle: every method of DBPy, in any order, on one key.
Next ==
    \/ \E k \in OneKey : get(k)
    \/ \E k \in OneKey, v \in Values : set(k, v)
    \/ \E k \in OneKey : delete(k)
    \/ \E k \in OneKey, v \in Values : batch_add(k, v)
    \/ \E k \in OneKey : batch_delete(k)
    \/ write
    \/ \E ks \in SeqsUpTo(OneKey, MaxKeysLen), sm \in Option(BOOLEAN) : multi_get(ks, sm)
    \/ \E m \in Option({"end", "from"}), k \in Option(OneKey), d \in Option({-1, 1}) :
           iterator(m, k, d)
    \/ \E w \in Option(BOOLEAN) : cancel_all_background_work(w)
    \/ flush
    \/ try_catch_up_with_primary
    \/ create_backup
    \/ close

Spec == Init /\ [][Next]_vars

\* The point operations and the maintenance calls, on every key.
NextPoint ==
    \/ \E k \in Keys : get(k)
    \/ \E k \in Keys, v \in Values : set(k, v)
    \/ \E k \in Keys : delete(k)
    \/ \E w \in Option(BOOLEAN) : cancel_all_background_work(w)
    \/ flush
    \/ try_catch_up_with_primary
    \/ close

SpecPoint == Init /\ [][NextPoint]_vars

\* Point operations on every key beside batches that write one key.
NextKV ==
    \/ \E k \in Keys : get(k)
    \/ \E k \in Keys, v \in Values : set(k, v)
    \/ \E k \in Keys : delete(k)
    \/ \E k \in OneKey, v \in Values : batch_add(k, v)
    \/ \E k \in OneKey : batch_delete(k)
    \/ write
    \/ close

SpecKV == Init /\ [][NextKV]_vars

\* Batches over every key: the client fills a WriteBatch and writes it, and
\* readers get between the calls.
NextWrite ==
    \/ \E k \in Keys, v \in Values : batch_add(k, v)
    \/ \E k \in Keys : batch_delete(k)
    \/ write
    \/ \E k \in Keys : get(k)
    \/ close

SpecWrite == Init /\ [][NextWrite]_vars

\* Iterators over a key space that set and delete change.
NextIter ==
    \/ \E k \in Keys, v \in Values : set(k, v)
    \/ \E k \in Keys : delete(k)
    \/ \E m \in Option(Modes), k \in Option(Keys), d \in Option(Directions) :
           iterator(m, k, d)
    \/ close

SpecIter == Init /\ [][NextIter]_vars

\* get and multi_get over a key space that set and delete change.
NextMultiGet ==
    \/ \E k \in Keys, v \in Values : set(k, v)
    \/ \E k \in Keys : delete(k)
    \/ \E k \in Keys : get(k)
    \/ \E ks \in SeqsUpTo(Keys, MaxKeysLen), sm \in Option(BOOLEAN) : multi_get(ks, sm)
    \/ close

SpecMultiGet == Init /\ [][NextMultiGet]_vars

\* Backups of a key space in which one key is written.
NextBackup ==
    \/ \E k \in OneKey, v \in Values : set(k, v)
    \/ \E k \in OneKey : delete(k)
    \/ flush
    \/ create_backup
    \/ restore_latest_backup
    \/ close

SpecBackup == Init /\ [][NextBackup]_vars

----------------------------------------------------------------------------
\* Claims.

HandleOps ==
    {"get", "set", "delete", "write", "multi_get", "iterator", "flush",
     "cancel_all_background_work", "try_catch_up_with_primary", "create_backup"}

Elems(seq) == {seq[i] : i \in DOMAIN seq}
Touches(wr, k) == \E i \in DOMAIN wr : wr[i].key = k

\* C1: once the handle is closed, every other handle operation fails with the
\* not-open error: none succeeds and none changes the key space.
C1_ClosedHandleFails ==
    [][(db = "None" /\ res'.op \in HandleOps)
          => (res'.kind = "notopen" /\ store' = store)]_vars

\* C2: close succeeds on an open handle and on a closed one and leaves the handle
\* closed, and a closed handle never becomes open again.
C2_CloseIdempotent ==
    [][/\ res'.op = "close" => (res'.kind = "ok" /\ db' = "None")
       /\ db = "None" => db' = "None"]_vars

\* C2 witness: close has run on a handle that was already closed.
C2_Witness == res.op = "close" /\ ~res.open /\ res.kind = "ok" /\ db = "None"

\* C3: multi_get on an open handle answers in key order: with skip_missings false
\* or absent one entry per key, None where the key is absent; with skip_missings
\* true the values of the present keys only, in their order.
C3_MultiGetOrder ==
    (res.op = "multi_get" /\ res.open /\ res.kind = "ok") =>
        IF res.skip = Some(TRUE)
        THEN LET present == SelectSeq(res.keys, LAMBDA k : store[k] # None)
             IN  /\ Len(res.ret) = Len(present)
                 /\ \A i \in 1..Len(present) : res.ret[i] = store[present[i]]
        ELSE /\ Len(res.ret) = Len(res.keys)
             /\ \A i \in 1..Len(res.keys) : res.ret[i] = store[res.keys[i]]

\* C3 witness: skip_missings true, an absent key before a present one, and the
\* answer holds the present key's value alone.
C3_Witness ==
    /\ res.op = "multi_get" /\ res.open /\ res.kind = "ok"
    /\ res.skip = Some(TRUE)
    /\ Len(res.keys) = 2
    /\ store[res.keys[1]] = None
    /\ store[res.keys[2]] # None
    /\ Len(res.ret) = 1

\* C4: with mode 'from' and a key, every negative direction is Reverse and every
\* other direction, or none, is Forward.
C4_NegativeIsReverse ==
    (res.op = "iterator" /\ res.mode = Some("from") /\ res.key # None) =>
        res.im.dr = IF res.direction # None /\ res.direction[1] < 0
                    THEN "Reverse" ELSE "Forward"

\* C5: a set that succeeds stores the value; get answers what the key space
\* holds; and what a key holds changes only in a set or delete of that key or in
\* a write of a batch that names it.
C5_SetThenGet ==
    [][/\ (res'.op = "set" /\ res'.kind = "ok") => store'[res'.key[1]] = res'.value
       /\ (res'.op = "get" /\ res'.kind = "ok")
             => (res'.ret = store[res'.key[1]] /\ store' = store)
       /\ \A k \in Keys :
             store'[k] # store[k] =>
                 \/ res'.op \in {"set", "delete"} /\ res'.key = Some(k)
                 \/ res'.op = "write" /\ Touches(batch, k)]_vars

\* C5 witness: a get has answered a value while another key holds one too.
C5_Witness ==
    /\ res.op = "get" /\ res.kind = "ok" /\ res.ret # None
    /\ \E k \in Keys : Some(k) # res.key /\ store[k] # None

\* C6: on an open handle an absent key is no error: unless the engine itself
\* fails, get of an absent key answers None, delete of an absent key succeeds and
\* leaves the key space as it was, and multi_get succeeds.
C6_AbsenceIsNoError ==
    [][/\ (res'.op = "get" /\ res'.open /\ store[res'.key[1]] = None
             /\ res'.kind # "engine")
             => (res'.kind = "ok" /\ res'.ret = None)
       /\ (res'.op = "delete" /\ res'.open /\ store[res'.key[1]] = None
             /\ res'.kind # "engine")
             => (res'.kind = "ok" /\ store' = store)
       /\ (res'.op = "multi_get" /\ res'.open /\ res'.kind # "engine")
             => res'.kind = "ok"]_vars

\* C6 witness: get of an absent key has answered None while another key is there.
C6_Witness ==
    /\ res.op = "get" /\ res.open /\ res.kind = "ok" /\ res.ret = None
    /\ store[res.key[1]] = None
    /\ \E k \in Keys : store[k] # None

\* What the key space holds after the whole of wr: for a key wr names, what the
\* last entry naming it says.
LastFor(wr, k) ==
    wr[CHOOSE i \in DOMAIN wr :
           wr[i].key = k /\ \A j \in DOMAIN wr : wr[j].key = k => j <= i]

Expected(s, wr) ==
    [k \in Keys |-> IF Touches(wr, k) THEN LastFor(wr, k).value ELSE s[k]]

\* C7: write applies the whole batch in one step or nothing of it: after a write
\* that succeeds every key the batch names holds what the last entry naming it
\* says and no other key changed; after one that fails (a closed handle
\* included) the key space is as it was; the count reported is the batch's length.
C7_WriteAtomic ==
    [][res'.op = "write" =>
          /\ res'.len = Len(batch)
          /\ res'.kind = "ok" => store' = Expected(store, batch)
          /\ res'.kind # "ok" => store' = store]_vars

\* C7 witness: a batch with two entries for one key, the later one a put, has
\* been written.
C7_Witness ==
    /\ res.op = "write" /\ res.kind = "ok"
    /\ \E i, j \in DOMAIN res.wr :
           /\ i < j
           /\ res.wr[i].key = res.wr[j].key
           /\ res.wr[i].value # res.wr[j].value
           /\ res.wr[j].kind = "put"
           /\ store[res.wr[j].key] = res.wr[j].value

\* C8: a restore that succeeds leaves in the restore directory the key space as
\* it was at the latest create_backup that succeeded.
C8_RestoreLatest ==
    (res.op = "restore_latest_backup" /\ res.kind = "ok") =>
        (lastBackup # None /\ restored = Some(lastBackup[1].contents))

\* C8 witness: two backups that differ, the later one taken over unflushed
\* writes, a write after it, and a restore.
C8_Witness ==
    /\ res.op = "restore_latest_backup" /\ res.kind = "ok"
    /\ Len(backups) = 2 /\ backups[1] # backups[2]
    /\ lastBackup # None /\ lastBackup[1].unflushed
    /\ restored # Some(store)

\* The pairs the key space holds with lo <= key <= hi.
PairsBetween(lo, hi) ==
    {<<k, store[k][1]>> : k \in {x \in Keys : store[x] # None /\ lo <= x /\ x <= hi}}
Ascending(seq) == \A i \in 1..(Len(seq) - 1) : seq[i][1] < seq[i + 1][1]
Descending(seq) == \A i \in 1..(Len(seq) - 1) : seq[i][1] > seq[i + 1][1]

\* C9: on an open handle, an iterator from Start (no mode, or a mode other than
\* 'end' and 'from') yields every pair in ascending key order; 'from' a key going
\* forward (no direction, or one >= 0) yields the pairs with key >= it, ascending;
\* 'from' a key in reverse (direction -1) yields the pairs with key <= it,
\* descending, the key itself first when it is present.
C9_IteratorOrder ==
    (res.op = "iterator" /\ res.open /\ res.kind = "ok") =>
        /\ (res.mode = None \/ res.mode[1] \notin {"end", "from"})
              => (Elems(res.ret) = PairsBetween(EmptyKey, MaxKey) /\ Ascending(res.ret))
        /\ (res.mode = Some("from") /\ res.key # None
              /\ (res.direction = None \/ res.direction[1] >= 0))
              => (/\ Elems(res.ret) = PairsBetween(res.key[1], MaxKey)
                  /\ Ascending(res.ret))
        /\ (res.mode = Some("from") /\ res.key # None /\ res.direction = Some(-1))
              => (/\ Elems(res.ret) = PairsBetween(EmptyKey, res.key[1])
                  /\ Descending(res.ret)
                  /\ store[res.key[1]] # None => res.ret[1][1] = res.key[1])

\* C9 witness: a reverse iterator from the greatest key over a full key space.
C9_Witness ==
    /\ res.op = "iterator" /\ res.open /\ res.kind = "ok"
    /\ res.mode = Some("from") /\ res.key = Some(MaxKey) /\ res.direction = Some(-1)
    /\ \A k \in Keys : store[k] # None
    /\ Len(res.ret) = Cardinality(Keys)

\* C10: no mode, or a mode other than 'end' and 'from', resolves to Start and
\* 'end' to End, whatever the key and the direction; 'from' without a key
\* resolves to From(b"", Forward) whatever the direction.
C10_ModeResolution ==
    res.op = "iterator" =>
        /\ (res.mode = None \/ res.mode[1] \notin {"end", "from"}) => res.im = Start
        /\ res.mode = Some("end") => res.im = End
        /\ (res.mode = Some("from") /\ res.key = None)
              => res.im = From(EmptyKey, "Forward")

\* C10 witness: 'from' with no key and direction -1.
C10_Witness ==
    /\ res.op = "iterator" /\ res.mode = Some("from") /\ res.key = None
    /\ res.direction = Some(-1)
    /\ res.im = From(EmptyKey, "Forward")

====
